---------------------------- MODULE Spec2Model ----------------------------
(***************************************************************************)
(* Bee: frame transport and rendering pipeline.                            *)
(*                                                                         *)
(*   band codec        pack_3bit_16 / unpack_3bit_16                       *)
(*   Bluetooth bridge  RFCOMM 6-byte frames in -> TCP out                  *)
(*   UDP bridge        UDP datagrams in -> TCP out                         *)
(*   renderer          TCP 6-byte frames in -> draw_bars -> TCP grids out  *)
(*   display driver    TCP grids in -> blit_grid_to_fb -> SSD1306::draw    *)
(*                                                                         *)
(* Every process is single threaded; each gets its own specification, the  *)
(* peers and the operating system being its nondeterministic environment.  *)
(***************************************************************************)
EXTENDS Integers, Sequences, FiniteSets, TLC

VARIABLES
    \* ---- band codec ----
    cpc,        \* "input" | "packed" | "unpacked", or, for a frame taken off
                \*   the wire, "received" | "decoded" | "reencoded"
    bands16,    \* uint8_t in[16]
    frame6,     \* uint8_t out[6]
    unpacked16, \* uint8_t out[16] of unpack_3bit_16
    repacked6,  \* uint8_t out[6] of pack_3bit_16 run on unpacked16
    \* ---- Bluetooth bridge (bee_bt_bridge.cpp) ----
    bpc,        \* position of main: "Start" | "Listening" | "Sleeping" | "Accepted" |
                \*   "Rejected" | "Authorized" | "Relaying"
    have_allow, \* BtListenCfg::have_allow
    allow_addr, \* BtListenCfg::allow_addr
    up,         \* upstream TCP handle: "none" (-1) | "unconn" | "conn"
    cliOpen,    \* the accepted RFCOMM socket cli is open
    remote,     \* identity of the connected peer (0: none)
    inStream,   \* bytes sent by the connected peer and not yet received
    peerClosed, \* the connected peer has shut its end
    f,          \* uint8_t f[6]
    nextId,     \* number of the next frame a peer produces
    sendLog,    \* history: one record per sendn call on the upstream handle
    sentOn,     \* history: the state of the handle of the last sendn call
    readPeers,  \* history: peers whose connection recv was called on
    sessIn,     \* history: bytes the connected peer has sent on this connection
    sessReads,  \* history: frames recvn has returned on this connection
    sessOut,    \* history: bytes written upstream while this connection is open
    reconnSince, \* history: tcp_reconnect was called since the last sendn call
    connFailed, \* history: a connect of the live loop failed and main has not slept since
    spun,       \* history: the last connect was attempted while connFailed
    lastLeave,  \* history: why main ended the session ("none": it has not)
    cliFds,     \* descriptors of accepted RFCOMM connections the process holds open
    upFds,      \* descriptors of upstream TCP sockets the process holds open
    \* ---- UDP bridge (bee_udp_bridge.cpp, second half of bee_bt_bridge.cpp) ----
    upc,        \* position of main: "Start" | "Recv" | "Exited"
    uExit,      \* exit status of the process (-1: running)
    uUp,        \* upstream TCP handle: "none" (-1) | "unconn" | "conn"
    uBuf,       \* uint8_t buf[6]
    uNextId,    \* number of the next datagram the sender produces
    uSendLog,   \* history: one record per sendn call on the upstream handle
    uSentOn,    \* history: the state of the handle of the last sendn call
    uReconnSince, \* history: tcp_reconnect was called since the last sendn call
    uConnFailed, \* history: a connect of the loop failed and main has not slept since
    uSpun,      \* history: the last connect was attempted while uConnFailed
    uLast,      \* history: the last datagram handled and what the turn did
    uUpFds,     \* descriptors of upstream TCP sockets the process holds open
    \* ---- rasterizer (draw_bars of bee_spectrum_display.cpp) ----
    kpc,        \* "input" | "drawn"
    kDims,      \* [cols, rows]: COLS and ROWS
    kBands,     \* const uint8_t* bands, a first vector
    kOther,     \* a second vector, equal to the first but in one column
    kGrid,      \* the grid draw_bars leaves for kBands
    kGridOther, \* the grid draw_bars leaves for kOther
    \* ---- renderer (bee_spectrum_display.cpp) ----
    rpc,        \* position of main: "Start" | "Accept" | "Relay" | "Exited"
    rExit,      \* exit status of the process (-1: running)
    rCfg,       \* [cols, rows] of the configuration
    rOut,       \* handle to the display driver: "none" (-1) | "unconn" | "conn"
    rSrv,       \* listening socket: "none" | "unbound" | "listening"
    rBt,        \* accepted bridge connection: "none" (-1) | "open"
    rIn,        \* bytes sent by the bridge and not yet received
    rInClosed,  \* the bridge has shut its end
    in6,        \* uint8_t in6[6]
    rGrid,      \* std::vector<uint8_t> grid
    rNextId,    \* number of frames the bridge has produced, plus one
    rStartFail, \* history: what could not be acquired at startup
    rCause,     \* history: why the process left its loop
    rTurns,     \* history: number of times the loop body was entered
    rSent,      \* history: one record per grid handed to sendn
    rArrived,   \* history: the bytes the bridge has written, in order
    \* ---- display driver (bee_display_driver.cpp) ----
    dpc,        \* position of main: "Start" | "Accept" | "Serve" | "Exited"
    dExit,      \* exit status of the process (-1: running)
    dCfg,       \* [width, height, cols, rows] of the configuration
    oled,       \* SSD1306: [open, w, h, prev, first_draw]
    fb,         \* std::vector<uint8_t> fb(width * PAGES)
    dSrv,       \* listening socket: "none" | "unbound" | "listening"
    dCli,       \* accepted client connection: "none" (-1) | "open"
    dIn,        \* bytes sent by the client and not yet received
    dInClosed,  \* the client has shut its end
    dGrid,      \* std::vector<uint8_t> grid(COLS*ROWS)
    dNextId,    \* number of grids the client has produced, plus one
    busLog,     \* history: the writes to the device of the last begin or draw
    dPrevGrid,  \* history: the grid of the cycle before the last one
    dCycles,    \* history: number of render/commit cycles done
    dStartFail, \* history: what could not be acquired at startup
    dCause,     \* history: why the process left its loop
    dev,        \* the device: [ram, page, col], display RAM and address pointers
    dCacheBefore, \* history: SSD1306::prev when the last draw was entered
    dFirstBefore, \* history: SSD1306::first_draw when the last draw was entered
    dWriteFailed, \* history: a write of the last draw failed
    busFaulty,  \* environment: the bus to the device can lose writes
    dCliFds,    \* descriptors of accepted client connections the process holds open
    \* ---- blit_grid_to_fb of bee_display_driver.cpp, on its own ----
    blpc,       \* "input" | "blitted"
    blCfg,      \* [width, height, cols, rows] of the configuration
    blGrid,     \* const std::vector<uint8_t>& grid
    blWritten   \* the indices i of every fb[i] |= ... that fill_rect executed

codecVars == <<cpc, bands16, frame6, unpacked16, repacked6>>
btVars == <<bpc, have_allow, allow_addr, up, cliOpen, remote, inStream, peerClosed,
            f, nextId, sendLog, sentOn, readPeers, sessIn, sessReads, sessOut, reconnSince,
            connFailed, spun, lastLeave, cliFds, upFds>>

udpVars == <<upc, uExit, uUp, uBuf, uNextId, uSendLog, uSentOn, uReconnSince, uLast,
             uConnFailed, uSpun, uUpFds>>

rastVars == <<kpc, kDims, kBands, kOther, kGrid, kGridOther>>

rendVars == <<rpc, rExit, rCfg, rOut, rSrv, rBt, rIn, rInClosed, in6, rGrid,
              rNextId, rStartFail, rCause, rTurns, rSent, rArrived>>

drvVars == <<dpc, dExit, dCfg, oled, fb, dSrv, dCli, dIn, dInClosed, dGrid, dNextId,
             busLog, dPrevGrid, dCycles, dStartFail, dCause,
             dev, dCacheBefore, dFirstBefore, dWriteFailed, busFaulty, dCliFds>>

blitVars == <<blpc, blCfg, blGrid, blWritten>>

vars == <<codecVars, btVars, udpVars, rastVars, rendVars, drvVars, blitVars>>

notCodec == <<btVars, udpVars, rastVars, rendVars, drvVars, blitVars>>
notBt    == <<codecVars, udpVars, rastVars, rendVars, drvVars, blitVars>>
notUdp   == <<codecVars, btVars, rastVars, rendVars, drvVars, blitVars>>
notRast  == <<codecVars, btVars, udpVars, rendVars, drvVars, blitVars>>
notRend  == <<codecVars, btVars, udpVars, rastVars, drvVars, blitVars>>
notDrv   == <<codecVars, btVars, udpVars, rastVars, rendVars, blitVars>>
notBlit  == <<codecVars, btVars, udpVars, rastVars, rendVars, drvVars>>

-----------------------------------------------------------------------------
(* Integer helpers: the C operators on uint8_t / uint32_t values.          *)

Min(a, b) == IF a < b THEN a ELSE b

RECURSIVE Pow2(_)
Pow2(n) == IF n = 0 THEN 1 ELSE 2 * Pow2(n - 1)

\* a | b on non-negative integers
RECURSIVE BitOr(_, _)
BitOr(a, b) ==
    IF a = 0 THEN b
    ELSE IF b = 0 THEN a
    ELSE (IF (a % 2 = 1) \/ (b % 2 = 1) THEN 1 ELSE 0) + 2 * BitOr(a \div 2, b \div 2)

\* a & b on non-negative integers
RECURSIVE BitAnd(_, _)
BitAnd(a, b) ==
    IF a = 0 \/ b = 0 THEN 0
    ELSE (IF (a % 2 = 1) /\ (b % 2 = 1) THEN 1 ELSE 0) + 2 * BitAnd(a \div 2, b \div 2)

Shl(v, n) == v * Pow2(n)
Shr(v, n) == v \div Pow2(n)
U8(v)     == v % 256

-----------------------------------------------------------------------------
(* Band codec                                                              *)

NumBands   == 16
FrameBytes == 6

ZeroFrame == [b \in 0..(FrameBytes - 1) |-> 0]
ZeroBands == [i \in 0..(NumBands - 1) |-> 0]

\* One iteration of the loop of pack_3bit_16: sample i at bit position 3*i.
PackStepNoCarry(in, out, i) ==
    LET v == BitAnd(in[i], 7)
        bitpos == 3 * i
        b == Shr(bitpos, 3)
        o == BitAnd(bitpos, 7)
    IN  [out EXCEPT ![b] = BitOr(@, U8(BitAnd(Shl(v, o), 255)))]

PackStepNoMask(in, out, i) ==
    LET v == in[i]
        bitpos == 3 * i
        b == Shr(bitpos, 3)
        o == BitAnd(bitpos, 7)
        o1 == [out EXCEPT ![b] = BitOr(@, U8(BitAnd(Shl(v, o), 255)))]
    IN  IF o > 5 THEN [o1 EXCEPT ![b + 1] = BitOr(@, U8(Shr(v, 8 - o)))]
        ELSE o1

PackStep(in, out, i) ==
    LET v == BitAnd(in[i], 7)
        bitpos == 3 * i
        b == Shr(bitpos, 3)
        o == BitAnd(bitpos, 7)
        o1 == [out EXCEPT ![b] = BitOr(@, U8(BitAnd(Shl(v, o), 255)))]
    IN  IF o > 5 THEN [o1 EXCEPT ![b + 1] = BitOr(@, U8(Shr(v, 8 - o)))]
        ELSE o1

\* the indices of out that iteration i of the loop writes: out[b], and
\* out[b+1] when o > 5
PackWritten(i) ==
    LET bitpos == 3 * i
        b == Shr(bitpos, 3)
        o == BitAnd(bitpos, 7)
    IN  IF o > 5 THEN {b, b + 1} ELSE {b}

RECURSIVE PackFrom(_, _, _)
PackFrom(in, out, i) ==
    IF i >= NumBands THEN out ELSE PackFrom(in, PackStep(in, out, i), i + 1)

pack_3bit_16(in) == PackFrom(in, ZeroFrame, 0)

\* One iteration of the loop of unpack_3bit_16.
UnpackSampleNoCarry(in, i) ==
    LET bitpos == 3 * i
        byte_idx == Shr(bitpos, 3)
        off == BitAnd(bitpos, 7)
    IN  BitAnd(Shr(in[byte_idx], off), 7)

UnpackSample(in, i) ==
    LET bitpos == 3 * i
        byte_idx == Shr(bitpos, 3)
        off == BitAnd(bitpos, 7)
        v0 == Shr(in[byte_idx], off)
        used == 8 - off
        v == IF used < 3 THEN BitOr(v0, Shl(in[byte_idx + 1], used)) ELSE v0
    IN  BitAnd(v, 7)

unpack_3bit_16(in) == [i \in 0..(NumBands - 1) |-> UnpackSample(in, i)]

\* Inputs of the codec: WindowLen consecutive samples take every value of
\* SampleVals, the samples around them are all FillVals (0 or 7).
WindowLen    == 2
ExtraSamples == {8, 13, 255}
SampleVals   == (0..7) \cup ExtraSamples
FillVals     == {0, 7}

InputVectors ==
    { [i \in 0..(NumBands - 1) |->
          IF i >= w /\ i < w + WindowLen THEN win[i - w] ELSE fill] :
      w \in 0..(NumBands - WindowLen),
      win \in [0..(WindowLen - 1) -> SampleVals],
      fill \in FillVals }

\* Frames taken off the wire: WindowLen consecutive bytes take every value
\* of FrameByteVals, or one byte takes every value of a uint8_t; the bytes
\* around them are all 0 or all 255.
FrameByteVals == {0, 1, 36, 73, 128, 146, 219, 255}
FrameFills    == {0, 255}

InputFrames ==
    { [b \in 0..(FrameBytes - 1) |->
          IF b >= w /\ b < w + WindowLen THEN win[b - w] ELSE fill] :
      w \in 0..(FrameBytes - WindowLen),
      win \in [0..(WindowLen - 1) -> FrameByteVals],
      fill \in FrameFills }
    \cup
    { [b \in 0..(FrameBytes - 1) |-> IF b = w THEN v ELSE fill] :
      w \in 0..(FrameBytes - 1), v \in 0..255, fill \in FrameFills }

CodecStart ==
    \/ /\ cpc = "input"
       /\ bands16 \in InputVectors
       /\ frame6 = ZeroFrame
       /\ unpacked16 = ZeroBands
       /\ repacked6 = ZeroFrame
    \/ /\ cpc = "received"
       /\ bands16 = ZeroBands
       /\ frame6 \in InputFrames
       /\ unpacked16 = ZeroBands
       /\ repacked6 = ZeroFrame

CodecIdle ==
    /\ cpc = "off"
    /\ bands16 = ZeroBands
    /\ frame6 = ZeroFrame
    /\ unpacked16 = ZeroBands
    /\ repacked6 = ZeroFrame

\* the sender packs the sampled bands into a frame
CodecPack ==
    /\ cpc = "input"
    /\ frame6' = pack_3bit_16(bands16)
    /\ cpc' = "packed"
    /\ UNCHANGED <<bands16, unpacked16, repacked6>>
    /\ UNCHANGED notCodec

\* the renderer unpacks the frame it received
CodecUnpack ==
    /\ cpc = "packed"
    /\ unpacked16' = unpack_3bit_16(frame6)
    /\ cpc' = "unpacked"
    /\ UNCHANGED <<bands16, frame6, repacked6>>
    /\ UNCHANGED notCodec

\* a frame taken off the wire is unpacked
CodecDecode ==
    /\ cpc = "received"
    /\ unpacked16' = unpack_3bit_16(frame6)
    /\ cpc' = "decoded"
    /\ UNCHANGED <<bands16, frame6, repacked6>>
    /\ UNCHANGED notCodec

\* and the samples it held are packed again
CodecReencode ==
    /\ cpc = "decoded"
    /\ repacked6' = pack_3bit_16(unpacked16)
    /\ cpc' = "reencoded"
    /\ UNCHANGED <<bands16, frame6, unpacked16>>
    /\ UNCHANGED notCodec

CodecNext == CodecPack \/ CodecUnpack \/ CodecDecode \/ CodecReencode

-----------------------------------------------------------------------------
(* Socket helpers of common.hpp, and the environment they run against.     *)

\* What the operating system may answer to one send()/recv() call: an error,
\* or a number of bytes (clamped to what was asked for).
\* A script is the sequence of answers to the first calls of one sendn/recvn.
IoScripts == { <<>>, <<-1>>, <<0>>, <<2, -1>>, <<2, 2>>, <<4, 1, -1>> }

\* tcp_connect: -1 only when socket() fails; the result of connect() is not
\* looked at, so a refused connection yields a valid, unconnected handle.
ConnectOutcomes == {"sockfail", "refused", "ok"}

tcp_connect(outcome) ==
    CASE outcome = "sockfail" -> "none"
      [] outcome = "refused"  -> "unconn"
      [] OTHER                -> "conn"

\* s >= 0
ValidFd(s) == s # "none"

\* tcp_reconnect(s, port): closes s if open, s = tcp_connect(port), returns s >= 0
tcp_reconnect(s, outcome) ==
    LET s2 == tcp_connect(outcome) IN [s |-> s2, ok |-> ValidFd(s2)]

\* if (!sendn(up, ...)) { ::close(up); up = -1; }: the handle after a sendn
after_send_keep(s, ok) == s

after_send(s, ok) == IF ok THEN s ELSE "none"

\* The descriptor table of a process, counted per role. ::close(fd) on an
\* open descriptor releases it; socket() and accept() add the descriptor
\* they return, if they return one.
fd_close_leak(n) == n

fd_close(n) == n - 1

fd_new(n, s) == IF ValidFd(s) THEN n + 1 ELSE n

\* tcp_reconnect on the table: if (s >= 0) ::close(s); s = tcp_connect(port)
reconnect_fds(n, s, s2) == fd_new(IF ValidFd(s) THEN fd_close(n) ELSE n, s2)

\* if (!sendn(up, ...)) { ::close(up); up = -1; } on the table
after_send_fds(n, ok) == IF ok THEN n ELSE fd_close(n)

\* sendn(sock, buf, n): loops over send() until n bytes are out or a call
\* returns <= 0. script: the first answers of the connection to send(); after
\* them it takes whatever is offered. An unconnected handle fails every send.
RECURSIVE SendLoop(_, _, _, _)
SendLoop(sent, n, script, connected) ==
    IF sent >= n THEN [ok |-> TRUE, sent |-> sent]
    ELSE LET r == IF ~connected THEN -1
                  ELSE IF script = <<>> THEN n - sent
                  ELSE IF Head(script) <= 0 THEN Head(script)
                  ELSE Min(Head(script), n - sent)
         IN  IF r <= 0 THEN [ok |-> FALSE, sent |-> sent]
             ELSE SendLoop(sent + r, n,
                           IF script = <<>> THEN script ELSE Tail(script), connected)

sendn(sock, n, script) == SendLoop(0, n, script, sock = "conn")

\* recvn(sock, buf, n): loops over recv() until n bytes are in or a call
\* returns <= 0. stream: the bytes in flight; recv() on an empty stream
\* answers 0 (the caller runs it only when the peer has closed by then).
\* Returns ok, the buffer (received bytes over the old contents) and the
\* bytes left in flight.
Overwrite(buf, got) ==
    [k \in 1..Len(buf) |-> IF k <= Len(got) THEN got[k] ELSE buf[k]]

RecvOneCall(got, n, stream, script) ==
    IF script # <<>> /\ Head(script) <= 0 THEN Head(script)
    ELSE IF stream = <<>> THEN 0
    ELSE IF script = <<>> THEN Min(n - Len(got), Len(stream))
    ELSE Min(Head(script), Min(n - Len(got), Len(stream)))

RECURSIVE RecvLoop(_, _, _, _, _)
RecvLoop(got, n, stream, script, buf) ==
    IF Len(got) >= n THEN [ok |-> TRUE, buf |-> Overwrite(buf, got), rest |-> stream]
    ELSE LET r == RecvOneCall(got, n, stream, script)
         IN  IF r <= 0
             THEN [ok |-> FALSE, buf |-> Overwrite(buf, got), rest |-> stream]
             ELSE RecvLoop(got \o SubSeq(stream, 1, r), n,
                           SubSeq(stream, r + 1, Len(stream)),
                           IF script = <<>> THEN script ELSE Tail(script), buf)

\* a recvn that returns what the first recv() call delivered
recvn_one_call(stream, n, script, buf) ==
    LET r == RecvOneCall(<<>>, n, stream, script)
    IN  IF r <= 0 THEN [ok |-> FALSE, buf |-> buf, rest |-> stream]
        ELSE [ok |-> TRUE, buf |-> Overwrite(buf, SubSeq(stream, 1, r)),
              rest |-> SubSeq(stream, r + 1, Len(stream))]

recvn(stream, n, script, buf) == RecvLoop(<<>>, n, stream, script, buf)

-----------------------------------------------------------------------------
(* Bluetooth bridge: main of bee_bt_bridge.cpp, live mode.                 *)

\* Remote devices and their addresses (bdaddr_t, 6 bytes).
PeerIds == {1, 2}
AddrOf(p) ==
    IF p = 1 THEN <<17, 34, 51, 68, 85, 1>> ELSE <<17, 34, 51, 68, 85, 2>>
ZeroAddr == <<0, 0, 0, 0, 0, 0>>

\* The frames a peer produces: 6 bytes that name the peer and the frame.
MaxFrames == 2
FrameOf(p, id) == [k \in 1..FrameBytes |-> (64 * p + 8 * id + k) % 256]
PeerOfByte(b) == b \div 64
EmptyBuf == [k \in 1..FrameBytes |-> 0]

\* memcmp(a, b, n) != 0
memcmp_ne(a, b, n) == \E k \in 1..n : a[k] # b[k]

BtStart ==
    /\ bpc = "Start"
    /\ have_allow \in BOOLEAN
    /\ allow_addr \in {AddrOf(1), ZeroAddr}
    /\ (have_allow <=> allow_addr # ZeroAddr)
    /\ up = "none"
    /\ cliOpen = FALSE
    /\ remote = 0
    /\ inStream = <<>>
    /\ peerClosed = FALSE
    /\ f = EmptyBuf
    /\ nextId = 1
    /\ sendLog = <<>>
    /\ sentOn = "none"
    /\ readPeers = {}
    /\ sessIn = <<>>
    /\ sessReads = 0
    /\ sessOut = <<>>
    /\ reconnSince = FALSE
    /\ connFailed = FALSE
    /\ spun = FALSE
    /\ lastLeave = "none"
    /\ cliFds = 0
    /\ upFds = 0

BtIdle ==
    /\ bpc = "off"
    /\ have_allow = FALSE
    /\ allow_addr = ZeroAddr
    /\ up = "none"
    /\ cliOpen = FALSE
    /\ remote = 0
    /\ inStream = <<>>
    /\ peerClosed = FALSE
    /\ f = EmptyBuf
    /\ nextId = 1
    /\ sendLog = <<>>
    /\ sentOn = "none"
    /\ readPeers = {}
    /\ sessIn = <<>>
    /\ sessReads = 0
    /\ sessOut = <<>>
    /\ reconnSince = FALSE
    /\ connFailed = FALSE
    /\ spun = FALSE
    /\ lastLeave = "none"
    /\ cliFds = 0
    /\ upFds = 0

\* main, lines 169-174: the first upstream connect; failure is not fatal
BtStartup ==
    /\ bpc = "Start"
    /\ \E outcome \in ConnectOutcomes :
          /\ up' = tcp_connect(outcome)
          /\ upFds' = fd_new(upFds, tcp_connect(outcome))
    /\ bpc' = "Listening"
    /\ UNCHANGED <<have_allow, allow_addr, cliOpen, remote, inStream, peerClosed,
                   f, nextId, sendLog, sentOn, readPeers, sessIn, sessReads, sessOut, reconnSince,
                   connFailed, spun, lastLeave, cliFds>>
    /\ UNCHANGED notBt

\* rfcomm_accept_one returns -1 (socket, bind, listen or accept failed);
\* main goes to sleep for 500 ms
BtAcceptFail ==
    /\ bpc = "Listening"
    /\ bpc' = "Sleeping"
    /\ connFailed' = FALSE
    /\ spun' = FALSE
    /\ UNCHANGED <<have_allow, allow_addr, up, cliOpen, remote, inStream, peerClosed,
                   f, nextId, sendLog, sentOn, readPeers, sessIn, sessReads, sessOut, reconnSince,
                   lastLeave, cliFds, upFds>>
    /\ UNCHANGED notBt

BtWake ==
    /\ bpc = "Sleeping"
    /\ bpc' = "Listening"
    /\ UNCHANGED <<have_allow, allow_addr, up, cliOpen, remote, inStream, peerClosed,
                   f, nextId, sendLog, sentOn, readPeers, sessIn, sessReads, sessOut, reconnSince,
                   connFailed, spun, lastLeave, cliFds, upFds>>
    /\ UNCHANGED notBt

\* rfcomm_accept_one, lines 103-108: accept() returns the connection of peer p
BtAccept ==
    /\ bpc = "Listening"
    /\ \E p \in PeerIds :
          /\ remote' = p
          /\ cliOpen' = TRUE
    /\ cliFds' = cliFds + 1
    /\ inStream' = <<>>
    /\ peerClosed' = FALSE
    /\ sessIn' = <<>>
    /\ sessReads' = 0
    /\ sessOut' = <<>>
    /\ bpc' = "Accepted"
    /\ lastLeave' = "none"
    /\ UNCHANGED <<have_allow, allow_addr, up, f, nextId, sendLog, sentOn, readPeers, reconnSince,
                   connFailed, spun, upFds>>
    /\ UNCHANGED notBt

\* rfcomm_accept_one, lines 110-111: the allow-list test on the accepted peer
Rejects5(have, allow, rem) == have /\ memcmp_ne(rem, allow, 5)

Rejects(have, allow, rem) == have /\ memcmp_ne(rem, allow, 6)

\* rfcomm_accept_one, lines 110-118: a peer that is not allowed is closed and
\* -2 returned; otherwise the connection is returned to main
BtAuthorize ==
    /\ bpc = "Accepted"
    /\ IF Rejects(have_allow, allow_addr, AddrOf(remote))
       THEN /\ cliOpen' = FALSE
            /\ cliFds' = fd_close(cliFds)
            /\ inStream' = <<>>
            /\ bpc' = "Rejected"
       ELSE /\ bpc' = "Authorized"
            /\ UNCHANGED <<cliOpen, inStream, cliFds>>
    /\ UNCHANGED <<have_allow, allow_addr, up, remote, peerClosed, f, nextId,
                   sendLog, sentOn, readPeers, sessIn, sessReads, sessOut, reconnSince,
                   connFailed, spun, lastLeave, upFds>>
    /\ UNCHANGED notBt

\* main, line 215: if (cli == -2) continue
BtRejected ==
    /\ bpc = "Rejected"
    /\ bpc' = "Listening"
    /\ UNCHANGED <<have_allow, allow_addr, up, cliOpen, remote, inStream, peerClosed,
                   f, nextId, sendLog, sentOn, readPeers, sessIn, sessReads, sessOut, reconnSince,
                   connFailed, spun, lastLeave, cliFds, upFds>>
    /\ UNCHANGED notBt

\* main, lines 220-224: the upstream handle is reopened when it is -1; the
\* client is closed when that fails
BtEnsureUp ==
    /\ bpc = "Authorized"
    /\ IF up = "none"
       THEN \E outcome \in ConnectOutcomes :
              LET rc == tcp_reconnect(up, outcome)
              IN  /\ up' = rc.s
                  /\ upFds' = reconnect_fds(upFds, up, rc.s)
                  /\ reconnSince' = TRUE
                  /\ spun' = connFailed
                  /\ connFailed' = (outcome # "ok")
                  /\ IF rc.ok
                     THEN /\ bpc' = "Relaying"
                          /\ UNCHANGED <<cliOpen, inStream, lastLeave, cliFds>>
                     ELSE /\ bpc' = "Listening"
                          /\ cliOpen' = FALSE
                          /\ cliFds' = fd_close(cliFds)
                          /\ inStream' = <<>>
                          /\ lastLeave' = "connect"
       ELSE /\ bpc' = "Relaying"
            /\ UNCHANGED <<up, reconnSince, cliOpen, inStream, connFailed, spun,
                           lastLeave, cliFds, upFds>>
    /\ UNCHANGED <<have_allow, allow_addr, remote, peerClosed, f, nextId,
                   sendLog, sentOn, readPeers, sessIn, sessReads, sessOut>>
    /\ UNCHANGED notBt

\* main, lines 227-231: one turn of the relay loop. recvn blocks until the
\* frame is complete or the peer is gone.
BtRelay ==
    /\ bpc = "Relaying"
    /\ Len(inStream) >= FrameBytes \/ peerClosed
    /\ \E rs \in IoScripts, ss \in IoScripts,
          outcome \in IF up = "none" THEN ConnectOutcomes ELSE {"ok"} :
         LET rr == recvn(inStream, FrameBytes, rs, f)
             rc == IF up = "none" THEN tcp_reconnect(up, outcome)
                   ELSE [s |-> up, ok |-> TRUE]
             sr == sendn(rc.s, FrameBytes, ss)
         IN  /\ f' = rr.buf
             /\ readPeers' = readPeers \cup {remote}
             /\ IF ~rr.ok
                THEN \* recvn failed: close(cli)
                     /\ bpc' = "Listening"
                     /\ cliOpen' = FALSE
                     /\ cliFds' = fd_close(cliFds)
                     /\ inStream' = <<>>
                     /\ lastLeave' = "read"
                     /\ UNCHANGED <<up, sendLog, sentOn, sessReads, sessOut, reconnSince,
                                    connFailed, spun, upFds>>
                ELSE IF ~rc.ok
                THEN \* line 228: break
                     /\ bpc' = "Listening"
                     /\ cliOpen' = FALSE
                     /\ cliFds' = fd_close(cliFds)
                     /\ inStream' = <<>>
                     /\ up' = rc.s
                     /\ upFds' = reconnect_fds(upFds, up, rc.s)
                     /\ reconnSince' = TRUE
                     /\ spun' = connFailed
                     /\ connFailed' = TRUE
                     /\ lastLeave' = "connect"
                     /\ sessReads' = sessReads + 1
                     /\ UNCHANGED <<sendLog, sentOn, sessOut>>
                ELSE /\ sessReads' = sessReads + 1
                     /\ sendLog' = Append(sendLog,
                            [frame |-> rr.buf, sent |-> sr.sent, ok |-> sr.ok,
                             reconn |-> (reconnSince \/ up = "none")])
                     /\ sentOn' = rc.s
                     /\ sessOut' = sessOut \o SubSeq(rr.buf, 1, sr.sent)
                     /\ reconnSince' = FALSE
                     /\ spun' = IF up = "none" THEN connFailed ELSE spun
                     /\ connFailed' = IF up = "none" THEN outcome # "ok" ELSE connFailed
                     /\ up' = after_send(rc.s, sr.ok)
                     /\ upFds' = after_send_fds(IF up = "none"
                                                THEN reconnect_fds(upFds, up, rc.s)
                                                ELSE upFds, sr.ok)
                     /\ IF sr.ok
                        THEN /\ bpc' = "Relaying"
                             /\ inStream' = rr.rest
                             /\ UNCHANGED <<cliOpen, lastLeave, cliFds>>
                        ELSE \* line 229: close(up); up = -1; break
                             /\ bpc' = "Listening"
                             /\ cliOpen' = FALSE
                             /\ cliFds' = fd_close(cliFds)
                             /\ inStream' = <<>>
                             /\ lastLeave' = "send"
    /\ UNCHANGED <<have_allow, allow_addr, remote, peerClosed, nextId, sessIn>>
    /\ UNCHANGED notBt

\* the connected peer writes one whole frame
BtPeerSend ==
    /\ cliOpen /\ ~peerClosed
    /\ nextId <= MaxFrames
    /\ Len(inStream) <= FrameBytes
    /\ inStream' = inStream \o FrameOf(remote, nextId)
    /\ sessIn' = sessIn \o FrameOf(remote, nextId)
    /\ nextId' = nextId + 1
    /\ UNCHANGED <<bpc, have_allow, allow_addr, up, cliOpen, remote, peerClosed,
                   f, sendLog, sentOn, readPeers, sessReads, sessOut, reconnSince,
                   connFailed, spun, lastLeave, cliFds, upFds>>
    /\ UNCHANGED notBt

\* the connected peer writes the first bytes of a frame and goes away
BtPeerSendPartial ==
    /\ cliOpen /\ ~peerClosed
    /\ nextId <= MaxFrames
    /\ Len(inStream) <= FrameBytes
    /\ inStream' = inStream \o SubSeq(FrameOf(remote, nextId), 1, 3)
    /\ sessIn' = sessIn \o SubSeq(FrameOf(remote, nextId), 1, 3)
    /\ nextId' = nextId + 1
    /\ peerClosed' = TRUE
    /\ UNCHANGED <<bpc, have_allow, allow_addr, up, cliOpen, remote,
                   f, sendLog, sentOn, readPeers, sessReads, sessOut, reconnSince,
                   connFailed, spun, lastLeave, cliFds, upFds>>
    /\ UNCHANGED notBt

\* the connected peer disconnects
BtPeerClose ==
    /\ cliOpen /\ ~peerClosed
    /\ peerClosed' = TRUE
    /\ UNCHANGED <<bpc, have_allow, allow_addr, up, cliOpen, remote, inStream,
                   f, nextId, sendLog, sentOn, readPeers, sessIn, sessReads, sessOut, reconnSince,
                   connFailed, spun, lastLeave, cliFds, upFds>>
    /\ UNCHANGED notBt

BtNext ==
    \/ BtStartup
    \/ BtAcceptFail
    \/ BtWake
    \/ BtAccept
    \/ BtAuthorize
    \/ BtRejected
    \/ BtEnsureUp
    \/ BtRelay
    \/ BtPeerSend
    \/ BtPeerSendPartial
    \/ BtPeerClose

-----------------------------------------------------------------------------
(* UDP bridge: main of bee_udp_bridge.cpp, normal mode.                    *)

\* Lengths of the datagrams the sender produces.
DgramLens == {0, 3, 6, 7, 12}
DgramOf(id, n) == [k \in 1..n |-> (8 * id + k) % 256]
NoTurn == [len |-> -1, r |-> -1, sent |-> 0, upBefore |-> "none", upAfter |-> "none"]

\* recv(us, buf, sizeof(buf), 0) on a datagram of n bytes: the bytes that fit in
\* the buffer are returned; the rest of the datagram is discarded.
udp_recv(n, bufsize) == Min(n, bufsize)

UdpStart ==
    /\ upc = "Start"
    /\ uExit = -1
    /\ uUp = "none"
    /\ uBuf = EmptyBuf
    /\ uNextId = 1
    /\ uSendLog = <<>>
    /\ uSentOn = "none"
    /\ uReconnSince = FALSE
    /\ uLast = NoTurn
    /\ uConnFailed = FALSE
    /\ uSpun = FALSE
    /\ uUpFds = 0

UdpIdle ==
    /\ upc = "off"
    /\ uExit = -1
    /\ uUp = "none"
    /\ uBuf = EmptyBuf
    /\ uNextId = 1
    /\ uSendLog = <<>>
    /\ uSentOn = "none"
    /\ uReconnSince = FALSE
    /\ uLast = NoTurn
    /\ uConnFailed = FALSE
    /\ uSpun = FALSE
    /\ uUpFds = 0

\* main, lines 284-341: the first upstream connect (failure is not fatal),
\* then the UDP socket and its bind (failure: return 1)
UdpStartup ==
    /\ upc = "Start"
    /\ \E outcome \in ConnectOutcomes, us \in {"ok", "sockfail", "bindfail"} :
          /\ uUp' = tcp_connect(outcome)
          /\ uUpFds' = fd_new(uUpFds, tcp_connect(outcome))
          /\ IF us = "ok"
             THEN upc' = "Recv" /\ UNCHANGED uExit
             ELSE upc' = "Exited" /\ uExit' = 1
    /\ UNCHANGED <<uBuf, uNextId, uSendLog, uSentOn, uReconnSince, uLast, uConnFailed, uSpun>>
    /\ UNCHANGED notUdp

\* main, lines 344-355: one turn of the loop on a datagram of n bytes
UdpTurn ==
    /\ upc = "Recv"
    /\ uNextId <= MaxFrames
    /\ \E n \in DgramLens, ss \in IoScripts,
          outcome \in IF uUp = "none" THEN ConnectOutcomes ELSE {"ok"} :
         LET dgram == DgramOf(uNextId, n)
             r  == udp_recv(n, FrameBytes)
             nb == Overwrite(uBuf, SubSeq(dgram, 1, r))
             rc == IF uUp = "none" THEN tcp_reconnect(uUp, outcome)
                   ELSE [s |-> uUp, ok |-> TRUE]
             sr == sendn(rc.s, FrameBytes, ss)
         IN  /\ uBuf' = nb
             /\ IF r # FrameBytes
                THEN \* line 346: continue
                     /\ uLast' = [len |-> n, r |-> r, sent |-> 0,
                                  upBefore |-> uUp, upAfter |-> uUp]
                     /\ UNCHANGED <<uUp, uSendLog, uSentOn, uReconnSince, uConnFailed, uSpun,
                                    uUpFds>>
                ELSE IF ~rc.ok
                THEN \* lines 348-351: drop until we reconnect
                     /\ uUp' = rc.s
                     /\ uUpFds' = reconnect_fds(uUpFds, uUp, rc.s)
                     /\ uReconnSince' = TRUE
                     /\ uSpun' = uConnFailed
                     /\ uConnFailed' = TRUE
                     /\ uLast' = [len |-> n, r |-> r, sent |-> 0,
                                  upBefore |-> uUp, upAfter |-> rc.s]
                     /\ UNCHANGED <<uSendLog, uSentOn>>
                ELSE /\ uUp' = after_send(rc.s, sr.ok)
                     /\ uUpFds' = after_send_fds(IF uUp = "none"
                                                 THEN reconnect_fds(uUpFds, uUp, rc.s)
                                                 ELSE uUpFds, sr.ok)
                     /\ uSendLog' = Append(uSendLog,
                            [frame |-> nb, sent |-> sr.sent, ok |-> sr.ok,
                             reconn |-> (uReconnSince \/ uUp = "none")])
                     /\ uSentOn' = rc.s
                     /\ uReconnSince' = FALSE
                     /\ uSpun' = IF uUp = "none" THEN uConnFailed ELSE uSpun
                     /\ uConnFailed' = IF uUp = "none" THEN outcome # "ok" ELSE uConnFailed
                     /\ uLast' = [len |-> n, r |-> r, sent |-> sr.sent,
                                  upBefore |-> uUp, upAfter |-> after_send(rc.s, sr.ok)]
    /\ uNextId' = uNextId + 1
    /\ UNCHANGED <<upc, uExit>>
    /\ UNCHANGED notUdp

\* recv returns -1 (an error): r != 6, continue
UdpRecvError ==
    /\ upc = "Recv"
    /\ uLast' = [len |-> -1, r |-> -1, sent |-> 0, upBefore |-> uUp, upAfter |-> uUp]
    /\ UNCHANGED <<upc, uExit, uUp, uBuf, uNextId, uSendLog, uSentOn, uReconnSince,
                   uConnFailed, uSpun, uUpFds>>
    /\ UNCHANGED notUdp

UdpNext == UdpStartup \/ UdpTurn \/ UdpRecvError

-----------------------------------------------------------------------------
(* Renderer: draw_bars and main of bee_spectrum_display.cpp, live mode.    *)

\* draw_bars(bands, grid, COLS, ROWS): the grid is cleared, then for every
\* x < COLS, x < 16 and every r < h = min(ROWS, bands[x]) the cell
\* grid[y*COLS + x] with y = ROWS-1-r is set to 1.
draw_bars_from_top(bands, COLS, ROWS) ==
    LET written ==
            UNION { { r * COLS + x : r \in 0..(Min(ROWS, bands[x]) - 1) } :
                    x \in 0..(Min(COLS, NumBands) - 1) }
    IN  [idx \in 0..(COLS * ROWS - 1) |-> IF idx \in written THEN 1 ELSE 0]

draw_bars_masked(bands, COLS, ROWS) ==
    LET written ==
            UNION { { (ROWS - 1 - r) * COLS + x :
                        r \in 0..(Min(ROWS, BitAnd(bands[x], 7)) - 1) } :
                    x \in 0..(Min(COLS, NumBands) - 1) }
    IN  [idx \in 0..(COLS * ROWS - 1) |-> IF idx \in written THEN 1 ELSE 0]

draw_bars(bands, COLS, ROWS) ==
    LET written ==
            UNION { { (ROWS - 1 - r) * COLS + x : r \in 0..(Min(ROWS, bands[x]) - 1) } :
                    x \in 0..(Min(COLS, NumBands) - 1) }
    IN  [idx \in 0..(COLS * ROWS - 1) |-> IF idx \in written THEN 1 ELSE 0]

\* The inputs draw_bars is run on: a vector, and a second one that differs
\* from it in one column; samples above 7 and above ROWS are among them.
RasterDims == { [cols |-> 16, rows |-> 8], [cols |-> 3, rows |-> 2],
                [cols |-> 17, rows |-> 3], [cols |-> 1, rows |-> 1] }
RasterSamples == {0, 1, 2, 3, 7, 8, 9, 255}
RasterBase ==
    { [i \in 0..(NumBands - 1) |-> 0],
      [i \in 0..(NumBands - 1) |-> IF i = 0 THEN 3 ELSE 0],
      [i \in 0..(NumBands - 1) |-> (i + 5) % 8] }

RastStart ==
    /\ kpc = "input"
    /\ kDims \in RasterDims
    /\ kBands \in RasterBase
    /\ \E x \in 0..(NumBands - 1), b \in RasterSamples :
          kOther = [kBands EXCEPT ![x] = b]
    /\ kGrid = <<>>
    /\ kGridOther = <<>>

RastIdle ==
    /\ kpc = "off"
    /\ kDims = [cols |-> 0, rows |-> 0]
    /\ kBands = ZeroBands
    /\ kOther = ZeroBands
    /\ kGrid = <<>>
    /\ kGridOther = <<>>

\* draw_bars is called on each of the two vectors
RastDraw ==
    /\ kpc = "input"
    /\ kGrid' = draw_bars(kBands, kDims.cols, kDims.rows)
    /\ kGridOther' = draw_bars(kOther, kDims.cols, kDims.rows)
    /\ kpc' = "drawn"
    /\ UNCHANGED <<kDims, kBands, kOther>>
    /\ UNCHANGED notRast

RastNext == RastDraw

\* tcp_listen: socket, bind and listen, none of them checked; the handle is
\* returned whatever happened to it
ListenOutcomes == {"sockfail", "bindfail", "ok"}

tcp_listen(outcome) ==
    CASE outcome = "sockfail" -> "none"
      [] outcome = "bindfail" -> "unbound"
      [] OTHER                -> "listening"

\* tcp_accept(srv): accept() fails on a handle that is not listening
tcp_accept(srv, outcome) ==
    IF srv = "listening" /\ outcome = "ok" THEN "open" ELSE "none"

\* The configurations and the frames the renderer is run on.
GridCfgs == { [cols |-> 16, rows |-> 8], [cols |-> 3, rows |-> 2],
              [cols |-> 17, rows |-> 3] }
RendBands ==
    { [i \in 0..(NumBands - 1) |-> IF i = 0 THEN 3 ELSE 0],
      [i \in 0..(NumBands - 1) |-> (i + 5) % 8],
      [i \in 0..(NumBands - 1) |-> 7] }
ToSeq6(fr) == [k \in 1..FrameBytes |-> fr[k - 1]]
ToFrame(sq) == [b \in 0..(FrameBytes - 1) |-> sq[b + 1]]
RendFrames == { ToSeq6(pack_3bit_16(v)) : v \in RendBands }
GridSeq(g, n) == [k \in 1..n |-> g[k - 1]]

RendStart ==
    /\ rpc = "Start"
    /\ rExit = -1
    /\ rCfg \in GridCfgs
    /\ rOut = "none"
    /\ rSrv = "none"
    /\ rBt = "none"
    /\ rIn = <<>>
    /\ rInClosed = FALSE
    /\ in6 = EmptyBuf
    /\ rGrid = <<>>
    /\ rNextId = 1
    /\ rStartFail = "none"
    /\ rCause = "none"
    /\ rTurns = 0
    /\ rSent = <<>>
    /\ rArrived = <<>>

RendIdle ==
    /\ rpc = "off"
    /\ rExit = -1
    /\ rCfg = [cols |-> 0, rows |-> 0]
    /\ rOut = "none"
    /\ rSrv = "none"
    /\ rBt = "none"
    /\ rIn = <<>>
    /\ rInClosed = FALSE
    /\ in6 = EmptyBuf
    /\ rGrid = <<>>
    /\ rNextId = 1
    /\ rStartFail = "none"
    /\ rCause = "none"
    /\ rTurns = 0
    /\ rSent = <<>>
    /\ rArrived = <<>>

\* main, lines 39-41 and 79: connect to the display driver (return 1 when the
\* handle is negative), then listen for the bridge
RendStartup ==
    /\ rpc = "Start"
    /\ \E co \in ConnectOutcomes, lo \in ListenOutcomes :
         LET out == tcp_connect(co)
         IN  /\ rOut' = out
             /\ IF ~ValidFd(out)
                THEN /\ rpc' = "Exited"
                     /\ rExit' = 1
                     /\ rCause' = "startup"
                     /\ rStartFail' = "connect"
                     /\ UNCHANGED rSrv
                ELSE /\ rpc' = "Accept"
                     /\ rSrv' = tcp_listen(lo)
                     /\ rStartFail' = IF co # "ok" THEN "connect"
                                      ELSE IF lo # "ok" THEN "listen" ELSE "none"
                     /\ UNCHANGED <<rExit, rCause>>
    /\ UNCHANGED <<rCfg, rBt, rIn, rInClosed, in6, rGrid, rNextId, rTurns, rSent,
                   rArrived>>
    /\ UNCHANGED notRend

\* main, line 80: bt = tcp_accept(srv)
RendAccept ==
    /\ rpc = "Accept"
    /\ \E ao \in {"ok", "fail"} :
          /\ rBt' = tcp_accept(rSrv, ao)
          /\ rStartFail' = IF rStartFail = "none" /\ tcp_accept(rSrv, ao) = "none"
                           THEN "accept" ELSE rStartFail
    /\ rpc' = "Relay"
    /\ rGrid' = [k \in 0..(rCfg.cols * rCfg.rows - 1) |-> 0]
    /\ UNCHANGED <<rExit, rCfg, rOut, rSrv, rIn, rInClosed, in6, rNextId,
                   rCause, rTurns, rSent, rArrived>>
    /\ UNCHANGED notRend

\* the loop's one grid buffer is handed to draw_bars, which clears it
\* (std::fill) before it draws
draw_bars_unclear(grid, bands, COLS, ROWS) ==
    [i \in DOMAIN grid |->
        IF grid[i] # 0 THEN grid[i] ELSE draw_bars(bands, COLS, ROWS)[i]]

draw_bars_into(grid, bands, COLS, ROWS) == draw_bars(bands, COLS, ROWS)

\* main, lines 84-89: one turn of the loop; the process returns 0 when recvn
\* or sendn fails
RendTurn ==
    /\ rpc = "Relay"
    /\ rBt = "none" \/ Len(rIn) >= FrameBytes \/ rInClosed
    /\ \E rs \in IoScripts, ss \in IoScripts :
         LET rr == IF rBt = "none"
                   THEN [ok |-> FALSE, buf |-> in6, rest |-> rIn]
                   ELSE recvn(rIn, FrameBytes, rs, in6)
             bands == unpack_3bit_16(ToFrame(rr.buf))
             grid == draw_bars_into(rGrid, bands, rCfg.cols, rCfg.rows)
             n == rCfg.cols * rCfg.rows
             sr == sendn(rOut, n, ss)
         IN  /\ in6' = rr.buf
             /\ IF ~rr.ok
                THEN /\ rpc' = "Exited"
                     /\ rExit' = 0
                     /\ rCause' = "recv"
                     /\ UNCHANGED <<rIn, rGrid, rTurns, rSent>>
                ELSE /\ rIn' = rr.rest
                     /\ rGrid' = grid
                     /\ rTurns' = rTurns + 1
                     /\ rSent' = Append(rSent,
                            [frame |-> rr.buf, grid |-> GridSeq(grid, n),
                             sent |-> sr.sent, ok |-> sr.ok])
                     /\ IF sr.ok
                        THEN UNCHANGED <<rpc, rExit, rCause>>
                        ELSE /\ rpc' = "Exited"
                             /\ rExit' = 0
                             /\ rCause' = "send"
    /\ UNCHANGED <<rCfg, rOut, rSrv, rBt, rInClosed, rNextId, rStartFail, rArrived>>
    /\ UNCHANGED notRend

\* the bridge writes one frame
RendBridgeSend ==
    /\ rpc = "Relay" /\ rBt = "open" /\ ~rInClosed
    /\ rNextId <= MaxFrames
    /\ Len(rIn) <= FrameBytes
    /\ \E fr \in RendFrames :
          /\ rIn' = rIn \o fr
          /\ rArrived' = rArrived \o fr
    /\ rNextId' = rNextId + 1
    /\ UNCHANGED <<rpc, rExit, rCfg, rOut, rSrv, rBt, rInClosed, in6, rGrid,
                   rStartFail, rCause, rTurns, rSent>>
    /\ UNCHANGED notRend

\* the bridge disconnects
RendBridgeClose ==
    /\ rpc = "Relay" /\ rBt = "open" /\ ~rInClosed
    /\ rInClosed' = TRUE
    /\ UNCHANGED <<rpc, rExit, rCfg, rOut, rSrv, rBt, rIn, in6, rGrid, rNextId,
                   rStartFail, rCause, rTurns, rSent, rArrived>>
    /\ UNCHANGED notRend

RendNext == RendStartup \/ RendAccept \/ RendTurn \/ RendBridgeSend \/ RendBridgeClose

-----------------------------------------------------------------------------
(* Display driver: SSD1306, blit_grid_to_fb and main of                    *)
(* bee_display_driver.cpp, normal mode.                                    *)

\* One write to the device: cmd(c) sends {0x00, c}, data sends 0x40 and a chunk.
CmdOp(c)  == [t |-> "cmd", v |-> c]
DataOp(d) == [t |-> "data", v |-> d]

\* SSD1306::data: CH bytes at most per write
CH == 64

RECURSIVE DataFrom(_, _, _)
DataFrom(d, i, n) ==
    IF i >= n THEN <<>>
    ELSE LET k == Min(CH, n - i)
         IN  <<DataOp([j \in 1..k |-> d[i + j - 1]])>> \o DataFrom(d, i + CH, n)

data_one_write(d, n) == <<DataOp([j \in 1..n |-> d[j - 1]])>>

data(d, n) == DataFrom(d, 0, n)

\* SSD1306::init: the power-up sequence
init(h) ==
    [k \in 1..25 |->
        CmdOp(<<174, 213, 128, 168, h - 1, 211, 0, 64, 141, 20, 32, 2, 161, 200, 218,
                IF h = 64 THEN 18 ELSE 2, 129, 127, 217, 241, 219, 64, 164, 166,
                175>>[k])]

ZeroBuf(n) == [i \in 0..(n - 1) |-> 0]

NoOled == [open |-> FALSE, w |-> 128, h |-> 64, prev |-> <<>>, first_draw |-> TRUE]

\* SSD1306::begin: false when the device cannot be opened or addressed;
\* otherwise init(), the cache zeroed and the first full refresh forced
begin_no_force(outcome, W, H) ==
    IF outcome # "ok"
    THEN [ok |-> FALSE, log |-> <<>>,
          oled |-> [NoOled EXCEPT !.w = W, !.h = H, !.open = (outcome = "ioctlfail")]]
    ELSE [ok |-> TRUE, log |-> init(H),
          oled |-> [open |-> TRUE, w |-> W, h |-> H,
                    prev |-> ZeroBuf(W * (H \div 8)), first_draw |-> FALSE]]

begin(outcome, W, H) ==
    IF outcome # "ok"
    THEN [ok |-> FALSE, log |-> <<>>,
          oled |-> [NoOled EXCEPT !.w = W, !.h = H, !.open = (outcome = "ioctlfail")]]
    ELSE [ok |-> TRUE, log |-> init(H),
          oled |-> [open |-> TRUE, w |-> W, h |-> H,
                    prev |-> ZeroBuf(W * (H \div 8)), first_draw |-> TRUE]]

\* the w bytes of page p of a buffer
PageOf(buf, p, w) == [k \in 0..(w - 1) |-> buf[p * w + k]]

\* SSD1306::draw, lines 81-82: is page p to be written
page_changed_first_byte(first, src, dst, w) ==
    first \/ src[0] # dst[0]

page_changed(first, src, dst, w) ==
    first \/ (\E k \in 0..(w - 1) : src[k] # dst[k])

\* SSD1306::draw, line 91: the cache after page p was written
cache_stale(prev, pages, p, w) == prev

cache_update_short(prev, pages, p, w) ==
    [i \in DOMAIN prev |-> IF i >= p * w /\ i < (p + 1) * w - 1 THEN pages[i] ELSE prev[i]]

cache_update(prev, pages, p, w) ==
    [i \in DOMAIN prev |-> IF i >= p * w /\ i < (p + 1) * w THEN pages[i] ELSE prev[i]]

\* SSD1306::draw: the loop over the pages, from page p on
RECURSIVE DrawFrom(_, _, _, _)
DrawFrom(o, pages, p, log) ==
    IF p >= o.h \div 8 THEN [oled |-> [o EXCEPT !.first_draw = FALSE], log |-> log]
    ELSE IF ~page_changed(o.first_draw, PageOf(pages, p, o.w), PageOf(o.prev, p, o.w), o.w)
    THEN DrawFrom(o, pages, p + 1, log)
    ELSE DrawFrom([o EXCEPT !.prev = cache_update(o.prev, pages, p, o.w)], pages, p + 1,
                  log \o <<CmdOp(176 + p), CmdOp(0), CmdOp(16)>>
                      \o data(PageOf(pages, p, o.w), o.w))

draw(o, pages) == DrawFrom(o, pages, 0, <<>>)

\* blit_grid_to_fb: the device pixels (x, y) that fill_rect sets, after its
\* clipping to the screen, for the non-zero cells of the grid
BlitPixelsTransposed(grid, COLS, ROWS, scrW, scrH) ==
    UNION { LET x0 == gx * (scrW \div COLS)
                y0 == gy * (scrH \div ROWS)
                x1 == Min(x0 + (scrW \div COLS) - 1, scrW - 1)
                y1 == Min(y0 + (scrH \div ROWS) - 1, scrH - 1)
            IN  IF grid[gx * ROWS + gy] # 0 THEN (x0..x1) \X (y0..y1) ELSE {} :
            gx \in 0..(COLS - 1), gy \in 0..(ROWS - 1) }

BlitPixels(grid, COLS, ROWS, scrW, scrH) ==
    UNION { LET x0 == gx * (scrW \div COLS)
                y0 == gy * (scrH \div ROWS)
                x1 == Min(x0 + (scrW \div COLS) - 1, scrW - 1)
                y1 == Min(y0 + (scrH \div ROWS) - 1, scrH - 1)
            IN  IF grid[gy * COLS + gx] # 0 THEN (x0..x1) \X (y0..y1) ELSE {} :
            gx \in 0..(COLS - 1), gy \in 0..(ROWS - 1) }

RECURSIVE BitsToByte(_, _)
BitsToByte(S, b) ==
    IF b > 7 THEN 0 ELSE (IF b \in S THEN Pow2(b) ELSE 0) + BitsToByte(S, b + 1)

\* blit_grid_to_fb: fb is cleared, then fb[(y>>3)*scrW + x] |= 1 << (y&7) for
\* every pixel set. As x < scrW, byte i collects the pixels of column
\* i mod scrW in the rows 8 * (i div scrW) + 0..7.
blit_grid_to_fb(grid, COLS, ROWS, scrW, scrH, size) ==
    LET px == BlitPixels(grid, COLS, ROWS, scrW, scrH)
    IN  [i \in 0..(size - 1) |->
            BitsToByte({ b \in 0..7 : <<i % scrW, (i \div scrW) * 8 + b>> \in px }, 0)]

\* the index base + x of every fb[base + x] |= (1u << bit) that fill_rect
\* executes: base = (y >> 3) * scrW. The vector is indexed unchecked.
BlitWritten(grid, COLS, ROWS, scrW, scrH) ==
    { (q[2] \div 8) * scrW + q[1] : q \in BlitPixels(grid, COLS, ROWS, scrW, scrH) }

\* std::vector<uint8_t> fb(cfg.width * PAGES, 0) with PAGES = cfg.height / 8
FbSize(c) == c.width * (c.height \div 8)

\* blit_grid_to_fb on its own: configurations whose height is and is not a
\* multiple of 8, and grids with more columns or rows than the device has
\* pixels
BlitCfgs == { [width |-> 4, height |-> 16, cols |-> 2, rows |-> 2],
              [width |-> 4, height |-> 12, cols |-> 2, rows |-> 1],
              [width |-> 3, height |-> 20, cols |-> 1, rows |-> 2],
              [width |-> 2, height |-> 8, cols |-> 3, rows |-> 1],
              [width |-> 2, height |-> 8, cols |-> 1, rows |-> 9],
              [width |-> 3, height |-> 4, cols |-> 2, rows |-> 1] }
BlitCells == {0, 1, 255}

BlitStart ==
    /\ blpc = "input"
    /\ blCfg \in BlitCfgs
    /\ blGrid \in [0..(blCfg.cols * blCfg.rows - 1) -> BlitCells]
    /\ blWritten = {}

BlitIdle ==
    /\ blpc = "off"
    /\ blCfg = [width |-> 0, height |-> 0, cols |-> 0, rows |-> 0]
    /\ blGrid = <<>>
    /\ blWritten = {}

\* main renders the grid: blit_grid_to_fb(grid, COLS, ROWS, cfg.width, cfg.height, fb)
BlitCall ==
    /\ blpc = "input"
    /\ blWritten' = BlitWritten(blGrid, blCfg.cols, blCfg.rows, blCfg.width, blCfg.height)
    /\ blpc' = "blitted"
    /\ UNCHANGED <<blCfg, blGrid>>
    /\ UNCHANGED notBlit

BlitNext == BlitCall

\* The device behind the bus. A write that reaches it acts as the SSD1306 does
\* in page addressing mode: 0xB0+p sets the page pointer, 0x00+n and 0x10+n
\* the low and high nibble of the column pointer, and each data byte goes to
\* the RAM cell under the pointers and advances the column pointer.
NoDev == [ram |-> <<>>, page |-> 0, col |-> 0]

\* display RAM is not cleared by init(): it holds whatever it held
DevFills == {0, 255}

DevCmd(d, c) ==
    IF c >= 176 /\ c <= 183 THEN [d EXCEPT !.page = c - 176]
    ELSE IF c >= 0 /\ c <= 15 THEN [d EXCEPT !.col = (d.col \div 16) * 16 + c]
    ELSE IF c >= 16 /\ c <= 31 THEN [d EXCEPT !.col = (c - 16) * 16 + (d.col % 16)]
    ELSE d

\* byte j of a data write goes to column col + j - 1 of the page selected,
\* if the page has that column
DevData(d, bytes, w) ==
    LET base == d.page * w + d.col
    IN  [d EXCEPT !.ram = [i \in DOMAIN d.ram |->
                              IF i >= base /\ i < base + Len(bytes)
                                 /\ i < (d.page + 1) * w
                              THEN bytes[i - base + 1] ELSE d.ram[i]],
                  !.col = d.col + Len(bytes)]

\* ::write(fd, ...) in cmd and data: the result is thrown away. A bus fault
\* makes writes fail: the device does not get them.
BusFaults == {"none", "data", "all"}

WriteFails(fault, op) ==
    CASE fault = "all"  -> TRUE
      [] fault = "data" -> op.t = "data"
      [] OTHER          -> FALSE

\* the device after the writes of log, those that fail left out
RECURSIVE DevRun(_, _, _, _)
DevRun(d, log, fault, w) ==
    IF log = <<>> THEN d
    ELSE LET op == Head(log)
             d2 == IF WriteFails(fault, op) THEN d
                   ELSE IF op.t = "cmd" THEN DevCmd(d, op.v)
                   ELSE DevData(d, [k \in 1..Len(op.v) |-> op.v[k]], w)
         IN  DevRun(d2, Tail(log), fault, w)

\* The configurations the driver is run on, and the grids its client sends.
MaxGrids == 3
DispCfgs == { [width |-> 4, height |-> 16, cols |-> 2, rows |-> 2],
              [width |-> 5, height |-> 8, cols |-> 2, rows |-> 1],
              [width |-> 3, height |-> 8, cols |-> 1, rows |-> 2],
              [width |-> 1, height |-> 8, cols |-> 2, rows |-> 1] }
BusCfgs == { [width |-> 5, height |-> 8, cols |-> 2, rows |-> 1],
             [width |-> 3, height |-> 8, cols |-> 1, rows |-> 2] }
CellVals == {0, 1}
GridsOf(c) == [1..(c.cols * c.rows) -> CellVals]
FromSeq(sq) == [i \in 0..(Len(sq) - 1) |-> sq[i + 1]]

DrvFresh ==
    /\ dpc = "Start"
    /\ dExit = -1
    /\ oled = NoOled
    /\ fb = <<>>
    /\ dSrv = "none"
    /\ dCli = "none"
    /\ dIn = <<>>
    /\ dInClosed = FALSE
    /\ dGrid = <<>>
    /\ dNextId = 1
    /\ busLog = <<>>
    /\ dPrevGrid = <<>>
    /\ dCycles = 0
    /\ dStartFail = "none"
    /\ dCause = "none"
    /\ dev = NoDev
    /\ dCacheBefore = <<>>
    /\ dFirstBefore = TRUE
    /\ dWriteFailed = FALSE
    /\ dCliFds = 0

\* the driver on a bus that delivers every write; its client and the network
\* may fail
DrvStart ==
    /\ DrvFresh
    /\ dCfg \in DispCfgs
    /\ busFaulty = FALSE

\* the driver on a bus that can lose writes
DrvBusStart ==
    /\ DrvFresh
    /\ dCfg \in BusCfgs
    /\ busFaulty = TRUE

\* the driver of a display wider than one data write can carry
WideCfgs == { [width |-> 65, height |-> 8, cols |-> 2, rows |-> 1],
              [width |-> 65, height |-> 16, cols |-> 1, rows |-> 2] }

DrvWideStart ==
    /\ DrvFresh
    /\ dCfg \in WideCfgs
    /\ busFaulty = FALSE

DrvIdle ==
    /\ dpc = "off"
    /\ dExit = -1
    /\ dCfg = [width |-> 0, height |-> 0, cols |-> 0, rows |-> 0]
    /\ oled = NoOled
    /\ fb = <<>>
    /\ dSrv = "none"
    /\ dCli = "none"
    /\ dIn = <<>>
    /\ dInClosed = FALSE
    /\ dGrid = <<>>
    /\ dNextId = 1
    /\ busLog = <<>>
    /\ dPrevGrid = <<>>
    /\ dCycles = 0
    /\ dStartFail = "none"
    /\ dCause = "none"
    /\ dev = NoDev
    /\ dCacheBefore = <<>>
    /\ dFirstBefore = TRUE
    /\ dWriteFailed = FALSE
    /\ busFaulty = FALSE
    /\ dCliFds = 0

\* main, lines 145-151 and 183: oled.begin (return 1 when it fails), the
\* framebuffer, then tcp_listen on the grid port
DrvStartup ==
    /\ dpc = "Start"
    /\ \E bo \in {"ok", "openfail", "ioctlfail"}, lo \in ListenOutcomes :
         LET b == begin(bo, dCfg.width, dCfg.height)
         IN  /\ oled' = b.oled
             /\ busLog' = b.log
             /\ IF ~b.ok
                THEN /\ dpc' = "Exited"
                     /\ dExit' = 1
                     /\ dCause' = "startup"
                     /\ dStartFail' = "device"
                     /\ UNCHANGED <<fb, dSrv, dev>>
                ELSE /\ dpc' = "Accept"
                     /\ \E fill \in DevFills :
                          dev' = [ram |-> [i \in 0..(dCfg.width * (dCfg.height \div 8) - 1)
                                              |-> fill],
                                  page |-> 0, col |-> 0]
                     /\ fb' = ZeroBuf(dCfg.width * (dCfg.height \div 8))
                     /\ dSrv' = tcp_listen(lo)
                     /\ dStartFail' = IF lo # "ok" THEN "listen" ELSE "none"
                     /\ UNCHANGED <<dExit, dCause>>
    /\ UNCHANGED <<dCfg, dCli, dIn, dInClosed, dGrid, dNextId, dPrevGrid, dCycles,
                   dCacheBefore, dFirstBefore, dWriteFailed, busFaulty, dCliFds>>
    /\ UNCHANGED notDrv

\* main, lines 184-186: cli = tcp_accept(srv); the grid buffer
DrvAccept ==
    /\ dpc = "Accept"
    /\ \E ao \in {"ok", "fail"} :
          /\ dCli' = tcp_accept(dSrv, ao)
          /\ dCliFds' = fd_new(dCliFds, tcp_accept(dSrv, ao))
          /\ dStartFail' = IF dStartFail = "none" /\ tcp_accept(dSrv, ao) = "none"
                           THEN "accept" ELSE dStartFail
    /\ dpc' = "Serve"
    /\ dGrid' = ZeroBuf(dCfg.cols * dCfg.rows)
    /\ UNCHANGED <<dExit, dCfg, oled, fb, dSrv, dIn, dInClosed, dNextId, busLog,
                   dPrevGrid, dCycles, dCause, dev, dCacheBefore, dFirstBefore,
                   dWriteFailed, busFaulty>>
    /\ UNCHANGED notDrv

\* main, lines 187-192: one turn of the loop: a whole grid is read, rendered
\* and committed; when recvn fails both sockets are closed and main returns 0
DrvTurn ==
    /\ dpc = "Serve"
    /\ dCli = "none" \/ Len(dIn) >= dCfg.cols * dCfg.rows \/ dInClosed
    /\ \E rs \in IF busFaulty THEN {<<>>} ELSE IoScripts,
          fault \in IF busFaulty THEN BusFaults ELSE {"none"} :
         LET n  == dCfg.cols * dCfg.rows
             old == [k \in 1..n |-> dGrid[k - 1]]
             rr == IF dCli = "none"
                   THEN [ok |-> FALSE, buf |-> old, rest |-> dIn]
                   ELSE recvn(dIn, n, rs, old)
             nfb == blit_grid_to_fb(FromSeq(rr.buf), dCfg.cols, dCfg.rows,
                                    dCfg.width, dCfg.height,
                                    dCfg.width * (dCfg.height \div 8))
             dr == draw(oled, nfb)
         IN  /\ dGrid' = FromSeq(rr.buf)
             /\ IF ~rr.ok
                THEN /\ dpc' = "Exited"
                     /\ dExit' = 0
                     /\ dCause' = "recv"
                     /\ dCli' = "none"
                     /\ dCliFds' = IF ValidFd(dCli) THEN fd_close(dCliFds) ELSE dCliFds
                     /\ dSrv' = "none"
                     /\ dIn' = <<>>
                     /\ UNCHANGED <<oled, fb, busLog, dPrevGrid, dCycles, dev,
                                    dCacheBefore, dFirstBefore, dWriteFailed>>
                ELSE /\ dIn' = rr.rest
                     /\ fb' = nfb
                     /\ oled' = dr.oled
                     /\ busLog' = dr.log
                     /\ dev' = DevRun(dev, dr.log, fault, dCfg.width)
                     /\ dCacheBefore' = oled.prev
                     /\ dFirstBefore' = oled.first_draw
                     /\ dWriteFailed' =
                            (\E k \in 1..Len(dr.log) : WriteFails(fault, dr.log[k]))
                     /\ dPrevGrid' = IF dCycles = 0 THEN <<>> ELSE dGrid
                     /\ dCycles' = dCycles + 1
                     /\ UNCHANGED <<dpc, dExit, dCause, dCli, dSrv, dCliFds>>
    /\ UNCHANGED <<dCfg, dInClosed, dNextId, dStartFail, busFaulty>>
    /\ UNCHANGED notDrv

\* the client writes one grid
DrvClientSend ==
    /\ dpc = "Serve" /\ dCli = "open" /\ ~dInClosed
    /\ dNextId <= MaxGrids
    /\ dIn = <<>>
    /\ \E g \in GridsOf(dCfg) : dIn' = g
    /\ dNextId' = dNextId + 1
    /\ UNCHANGED <<dpc, dExit, dCfg, oled, fb, dSrv, dCli, dInClosed, dGrid, busLog,
                   dPrevGrid, dCycles, dStartFail, dCause, dev, dCacheBefore,
                   dFirstBefore, dWriteFailed, busFaulty, dCliFds>>
    /\ UNCHANGED notDrv

\* the client disconnects, possibly in the middle of a grid
DrvClientClose ==
    /\ dpc = "Serve" /\ dCli = "open" /\ ~dInClosed
    /\ dInClosed' = TRUE
    /\ \E cut \in {0, 1} : dIn' = SubSeq(dIn, 1, Len(dIn) - cut)
    /\ UNCHANGED <<dpc, dExit, dCfg, oled, fb, dSrv, dCli, dGrid, dNextId, busLog,
                   dPrevGrid, dCycles, dStartFail, dCause, dev, dCacheBefore,
                   dFirstBefore, dWriteFailed, busFaulty, dCliFds>>
    /\ UNCHANGED notDrv

DrvNext == DrvStartup \/ DrvAccept \/ DrvTurn \/ DrvClientSend \/ DrvClientClose

-----------------------------------------------------------------------------
(* Specifications, one per process.                                        *)

CodecInit == CodecStart /\ BtIdle /\ UdpIdle /\ RendIdle /\ DrvIdle /\ RastIdle /\ BlitIdle

SpecCodec == CodecInit /\ [][CodecNext]_vars

BtInit == BtStart /\ CodecIdle /\ UdpIdle /\ RendIdle /\ DrvIdle /\ RastIdle /\ BlitIdle

SpecBt == BtInit /\ [][BtNext]_vars

UdpInit == UdpStart /\ CodecIdle /\ BtIdle /\ RendIdle /\ DrvIdle /\ RastIdle /\ BlitIdle

SpecUdp == UdpInit /\ [][UdpNext]_vars

RastInit == RastStart /\ CodecIdle /\ BtIdle /\ UdpIdle /\ RendIdle /\ DrvIdle /\ BlitIdle

SpecRast == RastInit /\ [][RastNext]_vars

RendInit == RendStart /\ CodecIdle /\ BtIdle /\ UdpIdle /\ DrvIdle /\ RastIdle /\ BlitIdle

SpecRend == RendInit /\ [][RendNext]_vars

DrvInit == DrvStart /\ CodecIdle /\ BtIdle /\ UdpIdle /\ RendIdle /\ RastIdle /\ BlitIdle

SpecDrv == DrvInit /\ [][DrvNext]_vars

DrvBusInit == DrvBusStart /\ CodecIdle /\ BtIdle /\ UdpIdle /\ RendIdle /\ RastIdle /\ BlitIdle

SpecDrvBus == DrvBusInit /\ [][DrvNext]_vars

DrvWideInit ==
    DrvWideStart /\ CodecIdle /\ BtIdle /\ UdpIdle /\ RendIdle /\ RastIdle /\ BlitIdle

SpecDrvWide == DrvWideInit /\ [][DrvNext]_vars

BlitInit ==
    BlitStart /\ CodecIdle /\ BtIdle /\ UdpIdle /\ RendIdle /\ DrvIdle /\ RastIdle

SpecBlit == BlitInit /\ [][BlitNext]_vars

\* the four processes of the pipeline: a behaviour is a behaviour of one of them
PipelineInit == BtInit \/ UdpInit \/ RendInit \/ DrvInit

PipelineNext == BtNext \/ UdpNext \/ RendNext \/ DrvNext

SpecPipeline == PipelineInit /\ [][PipelineNext]_vars

\* both bridges: a behaviour is a behaviour of one of them
BridgesInit == BtInit \/ UdpInit

BridgesNext == BtNext \/ UdpNext

SpecBridges == BridgesInit /\ [][BridgesNext]_vars

\* the processes that hold connections: both bridges and the display driver
LinksInit == BtInit \/ UdpInit \/ DrvBusInit

LinksNext == BtNext \/ UdpNext \/ DrvNext

SpecLinks == LinksInit /\ [][LinksNext]_vars

-----------------------------------------------------------------------------
(* C1: round trip. Whenever a vector whose 16 samples are all in 0..7 has  *)
(* been packed and the frame unpacked, the unpacked samples equal the      *)
(* packed ones, element by element.                                        *)

InRange(v) == \A i \in 0..(NumBands - 1) : v[i] \in 0..7

RoundTrip ==
    (cpc = "unpacked" /\ InRange(bands16)) =>
        \A i \in 0..(NumBands - 1) : unpacked16[i] = bands16[i]

\* a round trip of an in-range vector with a sample that straddles two bytes
RoundTripWitness ==
    /\ cpc = "unpacked"
    /\ InRange(bands16)
    /\ bands16[5] = 5
    /\ bands16[6] = 3
    /\ unpacked16 = bands16

-----------------------------------------------------------------------------
(* C2: authorization. With an allow-listed peer configured, every byte     *)
(* handed to the upstream link comes from a frame of the allowed peer, recv *)
(* is never called on the connection of another peer, a rejected           *)
(* connection is closed, and the bridge goes from Rejected to Listening.   *)

AllowedPeers == { p \in PeerIds : AddrOf(p) = allow_addr }

AuthorizationInv ==
    have_allow =>
        /\ \A i \in 1..Len(sendLog) : \A k \in 1..FrameBytes :
              PeerOfByte(sendLog[i].frame[k]) \in AllowedPeers
        /\ \A k \in 1..Len(sessOut) : PeerOfByte(sessOut[k]) \in AllowedPeers
        /\ readPeers \subseteq AllowedPeers
        /\ (bpc = "Rejected" => ~cliOpen /\ remote \notin AllowedPeers)
        /\ (bpc \in {"Authorized", "Relaying"} => remote \in AllowedPeers)

Authorization ==
    /\ []AuthorizationInv
    /\ [][bpc = "Rejected" => bpc' = "Listening"]_vars
    /\ [][(have_allow /\ bpc = "Accepted" /\ remote \notin AllowedPeers)
            => bpc' \in {"Accepted", "Rejected"}]_vars

\* a peer that is not allowed, and had already sent a frame, has just been
\* rejected, after a frame of the allowed peer went upstream
AuthorizationWitness ==
    /\ have_allow
    /\ bpc = "Rejected"
    /\ remote = 2
    /\ Len(sessIn) = FrameBytes
    /\ Len(sendLog) = 1
    /\ sendLog[1].ok

-----------------------------------------------------------------------------
(* C3: a datagram whose length is not 6 makes the UDP bridge write nothing *)
(* upstream and leaves the upstream handle as it was.                      *)

MalformedDatagramDropped ==
    (uLast.len # FrameBytes) =>
        (uLast.sent = 0 /\ uLast.upAfter = uLast.upBefore)

-----------------------------------------------------------------------------
(* C4: frame fidelity and ordering in the Bluetooth relay loop.            *)

IsPrefix(a, b) == Len(a) <= Len(b) /\ a = SubSeq(b, 1, Len(a))

\* C4 as stated: the bytes written upstream while the connection of the peer
\* is open are the concatenation of the frames read from it.
FrameFidelityExact ==
    sessOut = SubSeq(sessIn, 1, FrameBytes * sessReads)

\* C4 as amended: the bytes written upstream are a prefix of the concatenation,
\* in arrival order, of the frames read; it is all of it while no send has
\* failed, and lacks at most the end of the last frame read once a send has
\* failed (which ends the connection).
FrameFidelityPrefix ==
    /\ FrameBytes * sessReads <= Len(sessIn)
    /\ IsPrefix(sessOut, SubSeq(sessIn, 1, FrameBytes * sessReads))
    /\ Len(sessOut) >= FrameBytes * (sessReads - 1)
    /\ (bpc = "Relaying" => Len(sessOut) = FrameBytes * sessReads)
    /\ (sendLog # <<>> /\ sendLog[Len(sendLog)].ok /\ sessReads > 0
          => Len(sessOut) = FrameBytes * sessReads)

\* two frames sent back to back have been relayed
FrameFidelityWitness ==
    /\ bpc = "Relaying"
    /\ sessReads = 2
    /\ Len(sessOut) = 2 * FrameBytes
    /\ sessOut = sessIn

-----------------------------------------------------------------------------
(* C5: dirty-diff idempotence. When a grid is rendered and committed right *)
(* after a cycle with the identical grid, the second commit sends nothing  *)
(* to the device: no page-select command and no data.                      *)

DirtyDiffIdempotent ==
    (dpc = "Serve" /\ dCycles >= 2 /\ dGrid = dPrevGrid) => busLog = <<>>

\* a non-blank grid committed twice in a row, after an earlier different one
DirtyDiffWitness ==
    /\ dpc = "Serve"
    /\ dCycles = 3
    /\ dGrid = dPrevGrid
    /\ \E i \in DOMAIN dGrid : dGrid[i] # 0
    /\ \E i \in DOMAIN fb : fb[i] # 0
    /\ busLog = <<>>

-----------------------------------------------------------------------------
(* C6: dirty-diff completeness. The first commit after initialize() selects *)
(* every one of the height/8 pages, once and in order, and sends width     *)
(* bytes of data for each, whatever the grid.                              *)

PageSelects(log) ==
    SelectSeq(log, LAMBDA op : op.t = "cmd" /\ op.v >= 176)

RECURSIVE DataBytes(_)
DataBytes(log) ==
    IF log = <<>> THEN 0
    ELSE (IF Head(log).t = "data" THEN Len(Head(log).v) ELSE 0) + DataBytes(Tail(log))

FirstCommitWritesAll ==
    (dpc = "Serve" /\ dCycles = 1) =>
        /\ PageSelects(busLog) = [p \in 1..(oled.h \div 8) |-> CmdOp(176 + p - 1)]
        /\ DataBytes(busLog) = oled.w * (oled.h \div 8)

\* the first commit, of an all-zero grid that equals the zeroed cache
FirstCommitWitness ==
    /\ dpc = "Serve"
    /\ dCycles = 1
    /\ \A i \in DOMAIN dGrid : dGrid[i] = 0
    /\ fb = oled.prev
    /\ Len(PageSelects(busLog)) = 2

-----------------------------------------------------------------------------
(* C7: when reading a grid from the client fails after a clean startup, the *)
(* display driver goes back to accepting a client; it does not exit.       *)

GridSessionRecovery ==
    (dStartFail = "none" /\ dCause = "recv") => dpc \in {"Accept", "Serve"}

-----------------------------------------------------------------------------
(* C8: in none of the four processes does a connect, send or receive       *)
(* failure after startup end the process.                                  *)

TransportFailureNeverFatal ==
    /\ bpc # "Exited"
    /\ (upc = "Exited" => uLast = NoTurn)
    /\ ~(rpc = "Exited" /\ rStartFail = "none" /\ rCause \in {"recv", "send"})
    /\ ~(dpc = "Exited" /\ dStartFail = "none" /\ dCause \in {"recv", "send"})

-----------------------------------------------------------------------------
(* C9: a process that could not get its listening socket, its outbound     *)
(* connection or the device at startup never enters its relay loop, and    *)
(* its exit status is not zero.                                            *)

StartupFailureFatal ==
    /\ (rStartFail \in {"connect", "listen"} =>
            rTurns = 0 /\ (rpc = "Exited" => rExit # 0))
    /\ (dStartFail \in {"device", "listen"} =>
            dCycles = 0 /\ (dpc = "Exited" => dExit # 0))

-----------------------------------------------------------------------------
(* C10: send-failure policy of both bridges. After a sendn that failed the *)
(* upstream handle is -1 until tcp_reconnect is called; the frame of a     *)
(* failed sendn is never handed to sendn again; and the sendn that follows *)
(* a failed one comes after a call of tcp_reconnect.                       *)

SendPolicy(log, handle, reconnected) ==
    /\ (log # <<>> /\ ~log[Len(log)].ok /\ ~reconnected) => handle = "none"
    /\ \A i \in 1..Len(log) : \A j \in (i + 1)..Len(log) :
          ~log[i].ok => log[j].frame # log[i].frame
    /\ \A i \in 1..(Len(log) - 1) : ~log[i].ok => log[i + 1].reconn

SendFailurePolicy ==
    /\ SendPolicy(sendLog, up, reconnSince)
    /\ SendPolicy(uSendLog, uUp, uReconnSince)

\* a partial send failed, and the next frame went out after a reconnect
SendFailureWitness ==
    /\ Len(uSendLog) = 2
    /\ ~uSendLog[1].ok /\ uSendLog[1].sent = 2
    /\ uSendLog[2].ok /\ uSendLog[2].reconn
    /\ uUp = "conn"

\* the same in the Bluetooth bridge
SendFailureWitnessBt ==
    /\ Len(sendLog) = 2
    /\ ~sendLog[1].ok
    /\ sendLog[2].ok /\ sendLog[2].reconn

-----------------------------------------------------------------------------
(* C11: forward only on an established link. Every sendn of a bridge is    *)
(* made on a handle whose connection to the upstream endpoint was          *)
(* established; a connect that was refused is never followed by a send on  *)
(* the handle it left.                                                     *)

ForwardOnEstablishedLink ==
    /\ sentOn \in {"none", "conn"}
    /\ uSentOn \in {"none", "conn"}

-----------------------------------------------------------------------------
(* C12: back-off between reconnects. In the loops of both bridges, once a  *)
(* connect to the upstream endpoint has failed, main sleeps before it      *)
(* makes the next connect.                                                 *)

BackoffBetweenReconnects == ~spun /\ ~uSpun

-----------------------------------------------------------------------------
(* C13: state machine of the Bluetooth bridge. A session that main has     *)
(* authorized is ended, and Listening entered again, only by a failed read *)
(* from the peer: never from Authorized, and never from Relaying for       *)
(* another reason.                                                         *)

BtStateMachine == lastLeave \in {"none", "read"}

-----------------------------------------------------------------------------
(* C14: result of the rasterizer. In the grid draw_bars leaves, the cell   *)
(* of row y and column x is 1 exactly when x < min(COLS, 16) and           *)
(* y >= ROWS - min(ROWS, sample[x]), and 0 otherwise; so every cell is 0   *)
(* or 1 and the columns from 16 on are all 0.                              *)

RasterCell(bands, COLS, ROWS, y, x) ==
    IF x < Min(COLS, 16) /\ y >= ROWS - Min(ROWS, bands[x]) THEN 1 ELSE 0

RasterIs(grid, bands, COLS, ROWS) ==
    /\ DOMAIN grid = 0..(COLS * ROWS - 1)
    /\ \A y \in 0..(ROWS - 1), x \in 0..(COLS - 1) :
          grid[y * COLS + x] = RasterCell(bands, COLS, ROWS, y, x)

RasterResult ==
    kpc = "drawn" =>
        /\ RasterIs(kGrid, kBands, kDims.cols, kDims.rows)
        /\ RasterIs(kGridOther, kOther, kDims.cols, kDims.rows)

\* sample[0] = 3 with ROWS = 8: the bottom 3 rows of column 0 and nothing
\* else; the other vector has a sample of 255 in a column
RasterResultWitness ==
    /\ kpc = "drawn"
    /\ kDims = [cols |-> 16, rows |-> 8]
    /\ kBands[0] = 3 /\ \A i \in 1..(NumBands - 1) : kBands[i] = 0
    /\ { i \in DOMAIN kGrid : kGrid[i] = 1 } = {5 * 16, 6 * 16, 7 * 16}
    /\ kOther[4] = 255
    /\ \A y \in 0..7 : kGridOther[y * 16 + 4] = 1

-----------------------------------------------------------------------------
(* C16: monotonicity of the rasterizer. For two vectors and a column       *)
(* x < min(COLS, 16), when the sample of the first is at most the sample   *)
(* of the second, the first grid has at most as many filled cells in       *)
(* column x as the second; and no column has more than ROWS filled cells.  *)

ColumnCount(grid, COLS, ROWS, x) ==
    Cardinality({ y \in 0..(ROWS - 1) : grid[y * COLS + x] # 0 })

RasterMonotone ==
    kpc = "drawn" =>
        \A x \in 0..(Min(kDims.cols, 16) - 1) :
            /\ kBands[x] <= kOther[x] =>
                  ColumnCount(kGrid, kDims.cols, kDims.rows, x)
                      <= ColumnCount(kGridOther, kDims.cols, kDims.rows, x)
            /\ kOther[x] <= kBands[x] =>
                  ColumnCount(kGridOther, kDims.cols, kDims.rows, x)
                      <= ColumnCount(kGrid, kDims.cols, kDims.rows, x)
            /\ ColumnCount(kGrid, kDims.cols, kDims.rows, x) <= kDims.rows
            /\ ColumnCount(kGridOther, kDims.cols, kDims.rows, x) <= kDims.rows

\* a column whose sample went from 2 to 9, above ROWS = 8: 2 cells, then 8
RasterMonotoneWitness ==
    /\ kpc = "drawn"
    /\ kDims.rows = 8
    /\ kBands[13] = 2 /\ kOther[13] = 9
    /\ ColumnCount(kGrid, kDims.cols, kDims.rows, 13) = 2
    /\ ColumnCount(kGridOther, kDims.cols, kDims.rows, 13) = 8

-----------------------------------------------------------------------------
(* C15: masking. For a vector of 16 bytes of any value, the frame          *)
(* pack_3bit_16 leaves equals the frame of the vector with every sample    *)
(* reduced to its low 3 bits; the frame has 6 bytes and no iteration       *)
(* writes outside them.                                                    *)

Masked(v) == [i \in 0..(NumBands - 1) |-> BitAnd(v[i], 7)]

Masking ==
    cpc \in {"packed", "unpacked"} =>
        /\ frame6 = pack_3bit_16(Masked(bands16))
        /\ DOMAIN frame6 = 0..(FrameBytes - 1)
        /\ \A b \in DOMAIN frame6 : frame6[b] \in 0..255
        /\ \A i \in 0..(NumBands - 1) : PackWritten(i) \subseteq 0..(FrameBytes - 1)

\* a vector with the samples 255 and 13 side by side, the first one
\* straddling two bytes, has been packed
MaskingWitness ==
    /\ cpc = "packed"
    /\ bands16[5] = 255
    /\ bands16[6] = 13
    /\ frame6 = pack_3bit_16(Masked(bands16))
    /\ Masked(bands16) # bands16

-----------------------------------------------------------------------------
(* C17: a commit after the first writes exactly the changed pages. The     *)
(* pages it selects are the pages whose framebuffer bytes differ from the  *)
(* cache as it was when the commit began, each selected once; the data     *)
(* sent is width bytes per such page; a page that does not differ causes   *)
(* no write at all.                                                        *)

ChangedPages ==
    { p \in 0..((oled.h \div 8) - 1) :
        PageOf(fb, p, oled.w) # PageOf(dCacheBefore, p, oled.w) }

CommitWritesChangedPages ==
    (dpc = "Serve" /\ dCycles >= 2) =>
        LET sel == PageSelects(busLog)
        IN  /\ { sel[k].v - 176 : k \in 1..Len(sel) } = ChangedPages
            /\ Len(sel) = Cardinality(ChangedPages)
            /\ DataBytes(busLog) = oled.w * Cardinality(ChangedPages)
            /\ Len(busLog) =
                  (3 + (oled.w + CH - 1) \div CH) * Cardinality(ChangedPages)

\* a later commit in which page 1 changed, in its second half only, and
\* page 0 did not: one page select, of page 1
CommitWritesWitness ==
    /\ dpc = "Serve"
    /\ dCycles >= 2
    /\ oled.h = 16
    /\ ChangedPages = {1}
    /\ fb[oled.w] = dCacheBefore[oled.w]
    /\ PageSelects(busLog) = <<CmdOp(177)>>
    /\ \E i \in DOMAIN fb : i < oled.w /\ fb[i] # 0

-----------------------------------------------------------------------------
(* C18: device consistency. After a commit whose writes all reached the    *)
(* device, the display RAM equals the framebuffer, whatever happened to    *)
(* the writes of earlier commits.                                          *)

DeviceConsistent ==
    (dpc = "Serve" /\ dCycles >= 1 /\ ~dWriteFailed) => dev.ram = fb

-----------------------------------------------------------------------------
(* C19: lifecycle of first_draw (force_full_redraw). A commit that begins  *)
(* with the flag set and has a write fail leaves the flag set.             *)

ForceFullRedrawLifecycle ==
    (dpc = "Serve" /\ dCycles >= 1 /\ dFirstBefore /\ dWriteFailed)
        => oled.first_draw

-----------------------------------------------------------------------------
(* C20: render mapping. After blit_grid_to_fb, with bw = width / COLS and  *)
(* bh = height / ROWS, bit y mod 8 of framebuffer byte (y/8)*width + x is  *)
(* set exactly when x < COLS*bw, y < ROWS*bh and the grid cell of row y/bh *)
(* and column x/bw is not 0; the framebuffer is a function of the current  *)
(* grid alone.                                                             *)

BitOf(byte, b) == (byte \div Pow2(b)) % 2

RenderMapping ==
    (dpc = "Serve" /\ dCycles >= 1) =>
        LET W  == dCfg.width
            H  == dCfg.height
            bw == dCfg.width \div dCfg.cols
            bh == dCfg.height \div dCfg.rows
        IN  /\ DOMAIN fb = 0..(W * (H \div 8) - 1)
            /\ \A i \in DOMAIN fb : fb[i] \in 0..255
            /\ \A x \in 0..(W - 1), y \in 0..(H - 1) :
                  (BitOf(fb[(y \div 8) * W + x], y % 8) = 1) <=>
                      (/\ x < dCfg.cols * bw
                       /\ y < dCfg.rows * bh
                       /\ dGrid[(y \div bh) * dCfg.cols + (x \div bw)] # 0)

\* blocks of 3 by 4 pixels: the lower cell alone is set, after a grid with
\* the upper cell alone; the bytes are 0xF0
RenderMappingWitness ==
    /\ dpc = "Serve"
    /\ dCycles >= 2
    /\ dCfg = [width |-> 3, height |-> 8, cols |-> 1, rows |-> 2]
    /\ dPrevGrid = (0 :> 1 @@ 1 :> 0)
    /\ dGrid = (0 :> 0 @@ 1 :> 1)
    /\ \A i \in DOMAIN fb : fb[i] = 240


(* C21: render stays in bounds. Every index that blit_grid_to_fb writes is *)
(* an index of the framebuffer main allocated: it lies in                  *)
(* 0 .. width * (height / 8) - 1, whatever the positive dimensions are.    *)
RenderInBounds ==
    blpc = "blitted" => \A i \in blWritten : i >= 0 /\ i < FbSize(blCfg)

(* C22: single link at a time. Neither bridge nor the display driver ever  *)
(* holds more than one accepted client connection or more than one         *)
(* upstream handle open: a connection is accepted, and an upstream socket  *)
(* created, only when the one before it has been closed.                   *)
SingleLink ==
    /\ cliFds <= 1 /\ upFds <= 1
    /\ uUpFds <= 1
    /\ dCliFds <= 1
    /\ cliFds = (IF cliOpen THEN 1 ELSE 0)
    /\ upFds = (IF ValidFd(up) THEN 1 ELSE 0)
    /\ uUpFds = (IF ValidFd(uUp) THEN 1 ELSE 0)
    /\ dCliFds = (IF ValidFd(dCli) THEN 1 ELSE 0)

\* a second client is being served over a second upstream handle, after a
\* send failure ended the first of each
SingleLinkWitness ==
    /\ bpc = "Relaying"
    /\ cliFds = 1 /\ upFds = 1
    /\ \E k \in 1..Len(sendLog) : ~sendLog[k].ok

(* C23: band-to-grid relay of the renderer. For the k-th frame received    *)
(* the k-th sendn was handed draw_bars(unpack_3bit_16(frame)) of that      *)
(* frame alone, the frames being the bridge's in arrival order; every      *)
(* grid but the last was sent whole (COLS x ROWS bytes), and the last one  *)
(* is short only when its sendn failed, which ends the process.            *)
RelayGridOf(fr) ==
    GridSeq(draw_bars(unpack_3bit_16(ToFrame(fr)), rCfg.cols, rCfg.rows),
            rCfg.cols * rCfg.rows)

RelayInOrder ==
    \A k \in 1..Len(rSent) :
        /\ FrameBytes * k <= Len(rArrived)
        /\ rSent[k].frame = SubSeq(rArrived, FrameBytes * (k - 1) + 1, FrameBytes * k)
        /\ rSent[k].grid = RelayGridOf(rSent[k].frame)

BandToGridRelayPrefix ==
    /\ RelayInOrder
    /\ \A k \in 1..Len(rSent) :
          /\ rSent[k].ok <=> rSent[k].sent = rCfg.cols * rCfg.rows
          /\ ~rSent[k].ok => (k = Len(rSent) /\ rpc = "Exited")

\* as stated: one whole grid for every frame received
BandToGridRelayExact ==
    /\ RelayInOrder
    /\ \A k \in 1..Len(rSent) : rSent[k].sent = rCfg.cols * rCfg.rows

\* two frames were relayed, the second lighting fewer cells than the first,
\* and the second grid was cut short
BandToGridRelayWitness ==
    /\ Len(rSent) = 2
    /\ rSent[1].ok /\ ~rSent[2].ok /\ rSent[2].sent > 0
    /\ \E c \in 1..(rCfg.cols * rCfg.rows) : rSent[1].grid[c] = 1 /\ rSent[2].grid[c] = 0

(* C24: wire bit layout. Bit j (0..47) of a frame made by pack_3bit_16,   *)
(* that is bit j mod 8 of byte j div 8, is bit j mod 3 of sample j div 3,  *)
(* so the samples determine all 48 bits; and packing the samples that      *)
(* unpack_3bit_16 took out of any 6-byte frame gives that frame back.      *)
BitAt(v, k) == (v \div Pow2(k)) % 2

WireLayout(frame, samples) ==
    \A i \in 0..(NumBands - 1), k \in 0..2 :
        BitAt(frame[(3 * i + k) \div 8], (3 * i + k) % 8) = BitAt(samples[i], k)

WireBitLayout ==
    /\ cpc \in {"packed", "unpacked"} =>
          /\ WireLayout(frame6, bands16)
          /\ \A b \in 0..(FrameBytes - 1) : frame6[b] \in 0..255
    /\ cpc = "reencoded" =>
          /\ WireLayout(repacked6, unpacked16)
          /\ repacked6 = frame6

\* a frame with bits on both sides of the two kinds of byte boundary a
\* sample can straddle went through unpack and pack
WireBitLayoutWitness ==
    /\ cpc = "reencoded"
    /\ unpacked16[2] = 5 /\ unpacked16[5] = 6
    /\ frame6[0] >= 64 /\ frame6[1] % 2 = 1 /\ frame6[2] % 4 = 3

(* C25: the cache tracks the committed frame. Once draw has returned, for  *)
(* the first time or a later one, SSD1306::prev equals the framebuffer     *)
(* that was handed to it, byte for byte.                                   *)
CacheTracksFrame ==
    dCycles >= 1 => oled.prev = fb

\* a third commit, of a frame that differs from the one cached before it in
\* some pages and not in others
CacheTracksWitness ==
    /\ dpc = "Serve"
    /\ dCycles = 3
    /\ oled.prev = fb
    /\ \E i \in DOMAIN fb : fb[i] # dCacheBefore[i]
    /\ \E q \in 0..(oled.h \div 8 - 1) :
          /\ PageOf(fb, q, oled.w) = PageOf(dCacheBefore, q, oled.w)
          /\ \E k \in 0..(oled.w - 1) : PageOf(fb, q, oled.w)[k] # 0

(* C26: page write protocol. The writes of one draw fall into one group    *)
(* per written page: the page select 0xB0 + page, then the column resets   *)
(* 0x00 and 0x10, then data writes only, each of 1 to 64 payload bytes,    *)
(* whose payloads in order make up the width bytes of that page of the     *)
(* framebuffer. Pages come in increasing order, so no data of one page     *)
(* lies among the writes of another.                                       *)
RECURSIVE PageGroups(_, _)
PageGroups(log, acc) ==
    IF log = <<>> THEN acc
    ELSE LET op == Head(log)
             n == Len(acc)
         IN  IF op.t = "cmd" /\ op.v >= 176 /\ op.v <= 183
             THEN PageGroups(Tail(log),
                     Append(acc, [page |-> op.v - 176, cols |-> <<>>, writes |-> <<>>,
                                  late |-> FALSE]))
             ELSE IF n = 0
             THEN PageGroups(Tail(log),
                     <<[page |-> -1, cols |-> <<>>, writes |-> <<>>, late |-> TRUE]>>)
             ELSE IF op.t = "cmd"
             THEN PageGroups(Tail(log),
                     [acc EXCEPT ![n].cols = Append(@, op.v),
                                 ![n].late = @ \/ acc[n].writes # <<>>])
             ELSE PageGroups(Tail(log), [acc EXCEPT ![n].writes = Append(@, op.v)])

RECURSIVE Concat(_)
Concat(ws) == IF ws = <<>> THEN <<>> ELSE Head(ws) \o Concat(Tail(ws))

PageWriteProtocol ==
    (dpc = "Serve" /\ dCycles >= 1) =>
        LET g == PageGroups(busLog, <<>>)
        IN  \A k \in 1..Len(g) :
                /\ g[k].page \in 0..(oled.h \div 8 - 1)
                /\ k > 1 => g[k - 1].page < g[k].page
                /\ g[k].cols = <<0, 16>>
                /\ ~g[k].late
                /\ \A j \in 1..Len(g[k].writes) :
                      Len(g[k].writes[j]) >= 1 /\ Len(g[k].writes[j]) <= 64
                /\ Concat(g[k].writes) =
                      [c \in 1..oled.w |-> fb[g[k].page * oled.w + c - 1]]

\* a commit that wrote page 1 of a display 65 wide, not blank, in two data
\* writes of 64 bytes and 1 byte, and left page 0 alone
PageWriteWitness ==
    /\ dpc = "Serve"
    /\ dCycles >= 2
    /\ oled.w = 65 /\ oled.h = 16
    /\ Len(busLog) = 5
    /\ busLog[1] = CmdOp(177)
    /\ Len(busLog[4].v) = 64 /\ Len(busLog[5].v) = 1
    /\ busLog[5].v[1] # 0

=============================================================================
